---- MODULE Spec2Model ----
(***************************************************************************)
(* A model of derrick's migration engine: the `Migrate` trait              *)
(* (derrick-core/src/migrations/migrate.rs) and its sqlx/Postgres backend  *)
(* `SqlxPgMigrate` (derrick-migrate/src/backends/sqlx/postgres.rs).        *)
(*                                                                         *)
(* The database is the pair (schema, history) plus the open transaction;   *)
(* every `.await` of the backend is one step, and every database call may  *)
(* succeed or fail.                                                        *)
(***************************************************************************)
EXTENDS Integers, Sequences, FiniteSets, TLC

\* ------------------------------------------------------------------ bounds
\* The versions of an apply-all sequence, and those of single calls.
MaxVersion == 3
MaxCallVersion == 2
MaxStmts == 2
MaxDuration == 1
MaxCalls == 1
MaxRuns == 2

Versions == 1..MaxVersion
CallVersions == 1..MaxCallVersion
Durations == 0..MaxDuration

\* ------------------------------------------------------------ data types
\* Option<i64>
None == [some |-> FALSE, value |-> 0]
Some(v) == [some |-> TRUE, value |-> v]

\* One SQL statement of the migration with version v: its schema effect is
\* the statement itself being present in `schema`.
Statement(v, i) == <<v, i>>

\* Migration { version, description, no_tx, statements, sql }: `sql` is the
\* whole text of the migration, `statements` the same text split up.
Migration(v, notx, n) ==
    [version |-> v, description |-> v, no_tx |-> notx,
     statements |-> [i \in 1..n |-> Statement(v, i)],
     sql |-> [i \in 1..n |-> Statement(v, i)]]

NoMigration == Migration(0, FALSE, 0)

\* Migration::new_applied(duration_ms) -> AppliedMigration
new_applied(migration, duration_ms) ==
    [version |-> migration.version, description |-> migration.description,
     content |-> migration.sql, duration_ms |-> duration_ms]

NoApplied == new_applied(NoMigration, 0)

\* The statements a text of SQL consists of.
Effect(sql) == {sql[i] : i \in 1..Len(sql)}

\* Error: a driver error, with or without the migration it came from.
NoError == [kind |-> "none", version |-> 0]
\* Result<T, sqlx::Error>::into_error(): no migration is passed.
into_error == [kind |-> "database", version |-> 0]
\* Result<T, sqlx::Error>::into_error_void(): no migration is passed.
into_error_void == [kind |-> "database", version |-> 0]
\* Result<T, sqlx::Error>::into_error_with(migration)
into_error_with(migration) == [kind |-> "migration", version |-> migration.version]

\* ------------------------------------------------------------------ state
VARIABLES
    source,       \* the declared Migration set (fixed after loading)
    tableExists,  \* whether the history table exists in the database
    history,      \* the rows of the history table, in storage order
    schema,       \* the persisted schema effect: the statements applied
    tx,           \* the open transaction of apply_tx and what it holds
    pc,           \* where the engine's in-flight operation is suspended
    migration,    \* the argument of the in-flight apply
    idx,          \* apply_no_tx: position of the next statement to execute
    applied,      \* the AppliedMigration built by the in-flight apply
    pre,          \* observation: (history, schema) when the operation was called
    result,       \* what the last operation returned to its caller
    calls,        \* number of calls made by the caller so far
    run           \* the apply-all sequence driving the engine

vars == <<source, tableExists, history, schema, tx, pc, migration, idx,
          applied, pre, result, calls, run>>

db == <<tableExists, history, schema>>
inflight == <<tx, pc, migration, idx, applied>>

\* The transaction: whether it is open, the schema effect and the history
\* rows it holds uncommitted, and what was executed on its connection, in
\* order (the statements, then InsertEvent for the history insert).
NoTx == [open |-> FALSE, schema |-> {}, rows |-> <<>>, log |-> <<>>]
InsertEvent(v) == <<v, 0>>

\* What an operation returned.  `path`, `phase` and `at` are observations of
\* which apply path ran, at which await it failed or was abandoned and how
\* far the statement loop had come; they are not part of the value the
\* caller receives.
NoResult ==
    [op |-> "none", ok |-> TRUE, applied |-> NoApplied, version |-> None,
     rows |-> <<>>, err |-> NoError, arg |-> NoMigration, path |-> "none",
     phase |-> "none", at |-> 0]

Ok(op) == [NoResult EXCEPT !.op = op, !.ok = TRUE]
Err(op, e, phase) == [NoResult EXCEPT !.op = op, !.ok = FALSE, !.err = e, !.phase = phase]

\* ------------------------------------------------------- initial states
\* Every set of migrations with distinct versions among Vs, each
\* transactional or not, each of MaxStmts statements.
Sources(Vs) ==
    UNION {{{Migration(v, no_tx[v], MaxStmts) : v \in D} : no_tx \in [D -> BOOLEAN]} :
           D \in SUBSET Vs}

Declared(src, v) == \E m \in src : m.version = v
DefOf(src, v) == CHOOSE m \in src : m.version = v

\* The row INSERT INTO ... VALUES ($1, $2, $3, $4) adds for `a`.
Row(a) ==
    [version |-> a.version, description |-> a.description,
     content |-> a.content, duration_ms |-> a.duration_ms]

\* The ascending sequence of a set of integers.
RECURSIVE Ascending(_)
Ascending(S) ==
    IF S = {} THEN <<>>
    ELSE LET lo == CHOOSE x \in S : \A y \in S : x <= y
         IN <<lo>> \o Ascending(S \ {lo})

\* A history left by earlier runs: one row per version of H, the row of a
\* declared version recording that migration, any other row (its source
\* was deleted since) recording a one-statement migration.
InitialRow(src, v) ==
    IF Declared(src, v) THEN Row(new_applied(DefOf(src, v), 0))
    ELSE Row(new_applied(Migration(v, FALSE, 1), 0))

InitialHistory(src, H) ==
    LET vs == Ascending(H) IN [i \in 1..Len(vs) |-> InitialRow(src, vs[i])]

InitialSchema(src, H) == UNION {Effect(InitialRow(src, v).content) : v \in H}

\* The apply-all sequence: its position, how many sequences were started,
\* the migrations still to apply, the versions applied by this sequence,
\* the history and the schema when it started, how the sequence before it
\* ended and the versions that one applied, the history when the first
\* sequence started, and the apply-all sequence of another migrator on
\* the same database.
NoOther == [pc |-> "ready", pending |-> <<>>, done |-> <<>>]

NoRun == [pc |-> "ready", no |-> 0, pending |-> <<>>, done |-> <<>>,
          start |-> <<>>, schema0 |-> {}, prev |-> "none", prevDone |-> <<>>,
          origin |-> <<>>, other |-> NoOther]

InitOver(Vs) ==
    /\ source \in Sources(Vs)
    /\ \E H \in SUBSET Vs :
          /\ history = InitialHistory(source, H)
          /\ schema = InitialSchema(source, H)
          /\ tableExists \in (IF H = {} THEN BOOLEAN ELSE {TRUE})
    /\ tx = NoTx
    /\ pc = "idle"
    /\ migration = NoMigration
    /\ idx = 0
    /\ applied = NoApplied
    /\ pre = <<history, schema>>
    /\ result = NoResult
    /\ calls = 0
    /\ run = NoRun

Init == InitOver(CallVersions)

\* ------------------------------------------------- the Migrate operations
\* An operation returns `r` to its caller; an open transaction that was not
\* committed is dropped, which rolls it back.
Return(r) ==
    /\ result' = r
    /\ pc' = "idle"
    /\ migration' = NoMigration
    /\ idx' = 0
    /\ applied' = NoApplied
    /\ tx' = NoTx

\* The two branches of apply exchanged.
apply_path_swapped(m) == IF m.no_tx THEN "tx" ELSE "no_tx"

\* Migrate::apply: which path runs `m`.
apply_path(m) == IF m.no_tx THEN "no_tx" ELSE "tx"

\* Migrate::apply(m): the call, up to the first await of the chosen path.
apply(m) ==
    /\ pc = "idle"
    /\ migration' = m
    /\ pre' = <<history, schema>>
    /\ applied' = NoApplied
    /\ tx' = NoTx
    /\ result' = NoResult
    /\ IF apply_path(m) = "no_tx"
       THEN /\ idx' = 1
            /\ pc' = IF Len(m.statements) = 0 THEN "no_tx_insert" ELSE "no_tx_execute"
       ELSE /\ idx' = 0
            /\ pc' = "tx_begin"
    /\ UNCHANGED db

ApplyResult(r, path) == [r EXCEPT !.arg = migration, !.path = path, !.at = idx]

\* The result of executing a statement dropped instead of propagated with
\* `?`: the loop goes on after a statement that failed.
ApplyNoTxExecute_Ignore ==
    /\ pc = "no_tx_execute"
    /\ idx <= Len(migration.statements)
    /\ \E ok \in BOOLEAN :
          /\ schema' = IF ok THEN schema \cup {migration.statements[idx]} ELSE schema
          /\ idx' = idx + 1
          /\ pc' = IF idx = Len(migration.statements)
                   THEN "no_tx_insert" ELSE "no_tx_execute"
          /\ UNCHANGED <<tableExists, history, tx, migration, applied, result>>
    /\ UNCHANGED <<source, pre, calls, run>>

\* The error of a statement converted with into_error(), without the
\* migration.
ApplyNoTxExecute_NoContext ==
    /\ pc = "no_tx_execute"
    /\ idx <= Len(migration.statements)
    /\ \E ok \in BOOLEAN :
          IF ok
          THEN /\ schema' = schema \cup {migration.statements[idx]}
               /\ idx' = idx + 1
               /\ pc' = IF idx = Len(migration.statements)
                        THEN "no_tx_insert" ELSE "no_tx_execute"
               /\ UNCHANGED <<tableExists, history, tx, migration, applied, result>>
          ELSE /\ Return(ApplyResult(Err("apply", into_error, "execute"), "no_tx"))
               /\ UNCHANGED db
    /\ UNCHANGED <<source, pre, calls, run>>

\* The loop over `statements.iter().rev()`: the statements run last first.
ApplyNoTxExecute_Reversed ==
    /\ pc = "no_tx_execute"
    /\ idx <= Len(migration.statements)
    /\ \E ok \in BOOLEAN :
          IF ok
          THEN /\ schema' = schema
                     \cup {migration.statements[Len(migration.statements) + 1 - idx]}
               /\ idx' = idx + 1
               /\ pc' = IF idx = Len(migration.statements)
                        THEN "no_tx_insert" ELSE "no_tx_execute"
               /\ UNCHANGED <<tableExists, history, tx, migration, applied, result>>
          ELSE /\ Return(ApplyResult(Err("apply", into_error_with(migration), "execute"),
                                     "no_tx"))
               /\ UNCHANGED db
    /\ UNCHANGED <<source, pre, calls, run>>

\* apply_no_tx, one turn of `for statement in statements.iter()`: the
\* statement runs on the pool, outside any transaction.
ApplyNoTxExecute ==
    /\ pc = "no_tx_execute"
    /\ idx <= Len(migration.statements)
    /\ \E ok \in BOOLEAN :
          IF ok
          THEN /\ schema' = schema \cup {migration.statements[idx]}
               /\ idx' = idx + 1
               /\ pc' = IF idx = Len(migration.statements)
                        THEN "no_tx_insert" ELSE "no_tx_execute"
               /\ UNCHANGED <<tableExists, history, tx, migration, applied, result>>
          ELSE /\ Return(ApplyResult(Err("apply", into_error_with(migration), "execute"),
                                     "no_tx"))
               /\ UNCHANGED db
    /\ UNCHANGED <<source, pre, calls, run>>

\* The result of insert_new_applied dropped instead of propagated with `?`.
ApplyNoTxInsert_Swallow ==
    /\ pc = "no_tx_insert"
    /\ \E duration_ms \in Durations, ok \in BOOLEAN :
          LET a == new_applied(migration, duration_ms) IN
          /\ ok => tableExists
          /\ history' = IF ok THEN Append(history, Row(a)) ELSE history
          /\ Return(ApplyResult([Ok("apply") EXCEPT !.applied = a], "no_tx"))
    /\ UNCHANGED <<source, tableExists, schema, pre, calls, run>>

\* apply_no_tx after the loop: build the AppliedMigration, then
\* insert_new_applied on the pool.
ApplyNoTxInsert ==
    /\ pc = "no_tx_insert"
    /\ \E duration_ms \in Durations, ok \in BOOLEAN :
          LET a == new_applied(migration, duration_ms) IN
          IF ok
          THEN /\ tableExists
               /\ history' = Append(history, Row(a))
               /\ Return(ApplyResult([Ok("apply") EXCEPT !.applied = a], "no_tx"))
          ELSE /\ history' = history
               /\ Return(ApplyResult(Err("apply", into_error_void, "insert"), "no_tx"))
    /\ UNCHANGED <<source, tableExists, schema, pre, calls, run>>

\* apply_tx: self.pool().begin() and tx.acquire().
ApplyTxBegin ==
    /\ pc = "tx_begin"
    /\ \E ok \in BOOLEAN :
          IF ok
          THEN /\ tx' = [NoTx EXCEPT !.open = TRUE]
               /\ pc' = "tx_execute"
               /\ UNCHANGED <<migration, idx, applied, result>>
          ELSE Return(ApplyResult(Err("apply", into_error, "begin"), "tx"))
    /\ UNCHANGED <<source, db, pre, calls, run>>

\* The migration executed on the pool instead of the connection of the
\* transaction: its effect is persisted at once.
ApplyTxExecute_OnPool ==
    /\ pc = "tx_execute"
    /\ \E ok \in BOOLEAN :
          IF ok
          THEN /\ schema' = schema \cup Effect(migration.sql)
               /\ pc' = "tx_insert"
               /\ UNCHANGED <<tableExists, history, tx, migration, idx, applied, result>>
          ELSE /\ Return(ApplyResult(Err("apply", into_error_with(migration), "execute"), "tx"))
               /\ UNCHANGED db
    /\ UNCHANGED <<source, pre, calls, run>>

\* apply_tx: conn.execute(sqlx::raw_sql(&sql)), the whole text at once on
\* the connection of the transaction.
ApplyTxExecute ==
    /\ pc = "tx_execute"
    /\ \E ok \in BOOLEAN :
          IF ok
          THEN /\ tx' = [tx EXCEPT !.schema = @ \cup Effect(migration.sql),
                                   !.log = @ \o migration.sql]
               /\ pc' = "tx_insert"
               /\ UNCHANGED <<migration, idx, applied, result>>
          ELSE Return(ApplyResult(Err("apply", into_error_with(migration), "execute"), "tx"))
    /\ UNCHANGED <<source, db, pre, calls, run>>

\* The history row inserted with insert_new_applied, on the pool, as
\* apply_no_tx does: the row is persisted outside the transaction.
ApplyTxInsert_OnPool ==
    /\ pc = "tx_insert"
    /\ \E duration_ms \in Durations, ok \in BOOLEAN :
          LET a == new_applied(migration, duration_ms) IN
          IF ok
          THEN /\ tableExists
               /\ history' = Append(history, Row(a))
               /\ applied' = a
               /\ pc' = "tx_commit"
               /\ UNCHANGED <<tableExists, schema, tx, migration, idx, result>>
          ELSE /\ Return(ApplyResult(Err("apply", into_error_void, "insert"), "tx"))
               /\ UNCHANGED db
    /\ UNCHANGED <<source, pre, calls, run>>

\* apply_tx: build the AppliedMigration, then the insert on the connection
\* of the transaction.
ApplyTxInsert ==
    /\ pc = "tx_insert"
    /\ \E duration_ms \in Durations, ok \in BOOLEAN :
          LET a == new_applied(migration, duration_ms) IN
          IF ok
          THEN /\ tableExists
               /\ tx' = [tx EXCEPT !.rows = Append(@, Row(a)),
                                   !.log = Append(@, InsertEvent(a.version))]
               /\ applied' = a
               /\ pc' = "tx_commit"
               /\ UNCHANGED <<migration, idx, result>>
          ELSE Return(ApplyResult(Err("apply", into_error_void, "insert"), "tx"))
    /\ UNCHANGED <<source, db, pre, calls, run>>

\* tx.commit() left out: the transaction is dropped, hence rolled back, and
\* apply returns the AppliedMigration all the same.
ApplyTxCommit_Missing ==
    /\ pc = "tx_commit"
    /\ Return(ApplyResult([Ok("apply") EXCEPT !.applied = applied], "tx"))
    /\ UNCHANGED <<source, db, pre, calls, run>>

\* apply_tx: tx.commit().
ApplyTxCommit ==
    /\ pc = "tx_commit"
    /\ \E ok \in BOOLEAN :
          IF ok
          THEN /\ schema' = schema \cup tx.schema
               /\ history' = history \o tx.rows
               /\ Return(ApplyResult([Ok("apply") EXCEPT !.applied = applied], "tx"))
          ELSE /\ UNCHANGED <<schema, history>>
               /\ Return(ApplyResult(Err("apply", into_error, "commit"), "tx"))
    /\ UNCHANGED <<source, tableExists, pre, calls, run>>

\* The caller drops the future of an in-flight apply at the await where it
\* is suspended.  The request of that await may or may not have reached the
\* database by then (`sent`); the Transaction of apply_tx is dropped with
\* the future, which rolls back whatever was not committed.
Abandon ==
    /\ pc \in {"no_tx_execute", "no_tx_insert",
               "tx_begin", "tx_execute", "tx_insert", "tx_commit"}
    /\ \E sent \in BOOLEAN, duration_ms \in Durations :
          /\ schema' =
                IF sent /\ pc = "no_tx_execute" THEN schema \cup {migration.statements[idx]}
                ELSE IF sent /\ pc = "tx_commit" THEN schema \cup tx.schema
                ELSE schema
          /\ history' =
                IF sent /\ pc = "no_tx_insert" /\ tableExists
                THEN Append(history, Row(new_applied(migration, duration_ms)))
                ELSE IF sent /\ pc = "tx_commit" THEN history \o tx.rows
                ELSE history
    /\ Return([NoResult EXCEPT !.op = "abandoned", !.arg = migration,
                               !.path = IF pc \in {"no_tx_execute", "no_tx_insert"}
                                        THEN "no_tx" ELSE "tx",
                               !.phase = pc, !.at = idx])
    /\ UNCHANGED <<source, tableExists, pre, calls, run>>

Engine ==
    \/ ApplyNoTxExecute
    \/ ApplyNoTxInsert
    \/ ApplyTxBegin
    \/ ApplyTxExecute
    \/ ApplyTxInsert
    \/ ApplyTxCommit

\* A query that creates the table anew: the rows of an existing table are
\* lost.
create_if_not_exists_query_replace(exists, rows) == <<TRUE, <<>>>>

\* HistoryTable::create_if_not_exists_query, executed: the table exists
\* afterwards, and the rows of a table that existed are kept.
create_if_not_exists_query(exists, rows) == <<TRUE, rows>>

\* check_history_table: the create-if-not-exists query on the pool.
check_history_table(ok) ==
    LET after == IF ok THEN create_if_not_exists_query(tableExists, history)
                 ELSE <<tableExists, history>> IN
    /\ tableExists' = after[1]
    /\ history' = after[2]
    /\ result' = IF ok THEN Ok("check_history_table")
                 ELSE Err("check_history_table", into_error_void, "create")
    /\ UNCHANGED schema

\* What fetch_all of SELECT * may return: the rows in any order.
Reads(h) == {[i \in 1..Len(h) |-> h[p[i]]] : p \in Permutations(1..Len(h))}

\* get_history_table: the outcomes of the select on the pool.
get_history_table ==
    {Err("get_history_table", into_error, "select")}
      \cup (IF tableExists
            THEN {[Ok("get_history_table") EXCEPT !.rows = rows] : rows \in Reads(history)}
            ELSE {})

\* The closure without its guard `if m.version > v`: the last row wins.
fold_step_last(acc, m) == Some(m.version)

\* The closure with the comparison reversed: the lowest version wins.
fold_step_min(acc, m) ==
    IF ~acc.some THEN Some(m.version)
    ELSE IF m.version < acc.value THEN Some(m.version)
    ELSE acc

\* The closure keeping the first row it sees.
fold_step_first(acc, m) == IF ~acc.some THEN Some(m.version) ELSE acc

\* The closure folded over the rows by current_version.
fold_step(acc, m) ==
    IF ~acc.some THEN Some(m.version)
    ELSE IF m.version > acc.value THEN Some(m.version)
    ELSE acc

RECURSIVE fold(_, _)
fold(acc, rows) ==
    IF rows = <<>> THEN acc ELSE fold(fold_step(acc, Head(rows)), Tail(rows))

\* The error of the read replaced by a default: no rows, hence None.
current_version_of_default(r) ==
    IF r.ok THEN [Ok("current_version") EXCEPT !.version = fold(None, r.rows)]
    ELSE [Ok("current_version") EXCEPT !.version = fold(None, <<>>)]

\* Migrate::current_version on an outcome `r` of the read:
\* get_history_table().await?, then the fold.
current_version_of(r) ==
    IF r.ok THEN [Ok("current_version") EXCEPT !.version = fold(None, r.rows)]
    ELSE [r EXCEPT !.op = "current_version"]

\* Migrate::current_version
current_version == {current_version_of(r) : r \in get_history_table}

\* A validator that rejects a history row whose migration is not in the source.
NoValidation_validate_orphans(src, existing) ==
    IF \A i \in 1..Len(existing) : \E m \in src : m.version = existing[i].version
    THEN Ok("validate_source")
    ELSE Err("validate_source", NoError, "validate")

\* NoValidation::validate
NoValidation_validate(src, existing) == Ok("validate_source")

\* Migrate::validate_source, the default method.
validate_source(src, existing) == NoValidation_validate(src, existing)

\* ---------------------------------------------- a caller of the engine
\* The caller may invoke any operation, with any migration of the source,
\* whenever no operation is in flight.
CallApply ==
    /\ calls < MaxCalls
    /\ \E m \in source : apply(m)
    /\ calls' = calls + 1
    /\ UNCHANGED <<source, run>>

CallCheckHistoryTable ==
    /\ pc = "idle"
    /\ \E ok \in BOOLEAN : check_history_table(ok)
    /\ pre' = <<history, schema>>
    /\ UNCHANGED <<source, inflight, calls, run>>

\* get_history_table changes nothing at the database; the number of reads a
\* caller makes is bounded with its other calls.
CallGetHistoryTable ==
    /\ pc = "idle"
    /\ calls < MaxCalls
    /\ \E r \in get_history_table : result' = r
    /\ pre' = <<history, schema>>
    /\ calls' = calls + 1
    /\ UNCHANGED <<source, db, inflight, run>>

CallCurrentVersion ==
    /\ pc = "idle"
    /\ \E r \in current_version : result' = r
    /\ pre' = <<history, schema>>
    /\ UNCHANGED <<source, db, inflight, calls, run>>

\* An insert that overwrites the row of a version already recorded.
CallInsertNewApplied_Upsert ==
    /\ pc = "idle"
    /\ calls < MaxCalls
    /\ \E m \in source, duration_ms \in Durations, ok \in BOOLEAN :
          LET a == new_applied(m, duration_ms) IN
          IF ok
          THEN /\ tableExists
               /\ history' = IF \E i \in 1..Len(history) : history[i].version = a.version
                              THEN [i \in 1..Len(history) |->
                                       IF history[i].version = a.version THEN Row(a)
                                       ELSE history[i]]
                              ELSE Append(history, Row(a))
               /\ result' = [Ok("insert_new_applied") EXCEPT !.applied = a]
          ELSE /\ history' = history
               /\ result' = Err("insert_new_applied", into_error, "insert")
    /\ pre' = <<history, schema>>
    /\ calls' = calls + 1
    /\ UNCHANGED <<source, tableExists, schema, inflight, run>>

\* insert_new_applied: the insert on the pool, for a caller reconciling
\* the history by hand.
CallInsertNewApplied ==
    /\ pc = "idle"
    /\ calls < MaxCalls
    /\ \E m \in source, duration_ms \in Durations, ok \in BOOLEAN :
          LET a == new_applied(m, duration_ms) IN
          IF ok
          THEN /\ tableExists
               /\ history' = Append(history, Row(a))
               /\ result' = [Ok("insert_new_applied") EXCEPT !.applied = a]
          ELSE /\ history' = history
               /\ result' = Err("insert_new_applied", into_error, "insert")
    /\ pre' = <<history, schema>>
    /\ calls' = calls + 1
    /\ UNCHANGED <<source, tableExists, schema, inflight, run>>

\* validate_source is given a source set and the rows of the history.
CallValidateSource ==
    /\ pc = "idle"
    /\ \E src \in SUBSET source : result' = validate_source(src, history)
    /\ pre' = <<history, schema>>
    /\ UNCHANGED <<source, db, inflight, calls, run>>

Next ==
    \/ CallApply
    \/ CallCheckHistoryTable
    \/ CallGetHistoryTable
    \/ CallCurrentVersion
    \/ CallInsertNewApplied
    \/ CallValidateSource
    \/ Abandon
    \/ Engine

Spec == Init /\ [][Next]_vars

\* ------------------------------------------------ the apply-all sequence
\* The migrations of `src` whose version exceeds `current`, in ascending
\* version order.
Unapplied(src, current) ==
    LET vs == Ascending({m.version : m \in {d \in src : ~current.some \/ d.version > current.value}})
    IN [i \in 1..Len(vs) |-> DefOf(src, vs[i])]

RunStart ==
    /\ pc = "idle"
    /\ run.pc \in {"ready", "done", "failed"}
    /\ run.no < MaxRuns
    /\ run' = [pc |-> "check", no |-> run.no + 1, pending |-> <<>>, done |-> <<>>,
               start |-> history, schema0 |-> schema,
               prev |-> IF run.pc = "ready" THEN "none" ELSE run.pc,
               prevDone |-> run.done,
               origin |-> IF run.no = 0 THEN history ELSE run.origin,
               other |-> run.other]
    /\ result' = NoResult
    /\ UNCHANGED <<source, db, inflight, pre, calls>>

RunCheckHistoryTable ==
    /\ run.pc = "check"
    /\ \E ok \in BOOLEAN :
          /\ check_history_table(ok)
          /\ run' = [run EXCEPT !.pc = IF ok THEN "version" ELSE "failed"]
    /\ UNCHANGED <<source, inflight, pre, calls>>

RunCurrentVersion ==
    /\ run.pc = "version"
    /\ \E r \in current_version :
          /\ result' = r
          /\ run' = IF r.ok
                    THEN [run EXCEPT !.pc = "apply", !.pending = Unapplied(source, r.version)]
                    ELSE [run EXCEPT !.pc = "failed"]
    /\ UNCHANGED <<source, db, inflight, pre, calls>>

RunApply ==
    /\ run.pc = "apply"
    /\ run.pending # <<>>
    /\ apply(Head(run.pending))
    /\ run' = [run EXCEPT !.pc = "wait"]
    /\ UNCHANGED <<source, calls>>

\* The sequence halts at the first apply that fails.
RunApplied ==
    /\ run.pc = "wait"
    /\ pc = "idle"
    /\ run' = IF result.ok
              THEN [run EXCEPT !.pc = "apply", !.pending = Tail(@),
                               !.done = Append(@, result.applied.version)]
              ELSE [run EXCEPT !.pc = "failed"]
    /\ UNCHANGED <<source, db, inflight, pre, result, calls>>

RunFinish ==
    /\ run.pc = "apply"
    /\ run.pending = <<>>
    /\ run' = [run EXCEPT !.pc = "done"]
    /\ UNCHANGED <<source, db, inflight, pre, result, calls>>

NextRun ==
    \/ RunStart
    \/ RunCheckHistoryTable
    \/ RunCurrentVersion
    \/ RunApply
    \/ RunApplied
    \/ RunFinish
    \/ Engine

RunInit == InitOver(Versions)

RunSpec == RunInit /\ [][NextRun]_vars

\* ------------------------------------- two migrators on one database
\* A second migrator runs the same apply-all sequence against the same
\* database.  Nothing in Migrate or SqlxPgMigrate takes a lock, so its
\* operations interleave with those of the first; a migrator that awaits
\* the result of its apply receives it before the other one's next
\* operation.
OtherStart ==
    /\ run.other.pc = "ready"
    /\ run.pc # "wait"
    /\ run' = [run EXCEPT !.other.pc = "check"]
    /\ UNCHANGED <<source, db, inflight, pre, result, calls>>

OtherCheckHistoryTable ==
    /\ run.other.pc = "check"
    /\ run.pc # "wait"
    /\ \E ok \in BOOLEAN :
          /\ check_history_table(ok)
          /\ run' = [run EXCEPT !.other.pc = IF ok THEN "version" ELSE "failed"]
    /\ UNCHANGED <<source, inflight, pre, calls>>

OtherCurrentVersion ==
    /\ run.other.pc = "version"
    /\ run.pc # "wait"
    /\ \E r \in current_version :
          /\ result' = r
          /\ run' = IF r.ok
                    THEN [run EXCEPT !.other.pc = "apply",
                                     !.other.pending = Unapplied(source, r.version)]
                    ELSE [run EXCEPT !.other.pc = "failed"]
    /\ UNCHANGED <<source, db, inflight, pre, calls>>

OtherApply ==
    /\ run.other.pc = "apply"
    /\ run.pc # "wait"
    /\ run.other.pending # <<>>
    /\ apply(Head(run.other.pending))
    /\ run' = [run EXCEPT !.other.pc = "wait"]
    /\ UNCHANGED <<source, calls>>

OtherApplied ==
    /\ run.other.pc = "wait"
    /\ pc = "idle"
    /\ run' = IF result.ok
              THEN [run EXCEPT !.other.pc = "apply", !.other.pending = Tail(@),
                               !.other.done = Append(@, result.applied.version)]
              ELSE [run EXCEPT !.other.pc = "failed"]
    /\ UNCHANGED <<source, db, inflight, pre, result, calls>>

OtherFinish ==
    /\ run.other.pc = "apply"
    /\ run.other.pending = <<>>
    /\ run' = [run EXCEPT !.other.pc = "done"]
    /\ UNCHANGED <<source, db, inflight, pre, result, calls>>

\* The first migrator does not start an operation while the second one
\* awaits the result of its apply.
OtherNotWaiting == run.other.pc # "wait"

NextBoth ==
    \/ OtherNotWaiting /\ RunStart
    \/ OtherNotWaiting /\ RunCheckHistoryTable
    \/ OtherNotWaiting /\ RunCurrentVersion
    \/ OtherNotWaiting /\ RunApply
    \/ RunApplied
    \/ RunFinish
    \/ OtherStart
    \/ OtherCheckHistoryTable
    \/ OtherCurrentVersion
    \/ OtherApply
    \/ OtherApplied
    \/ OtherFinish
    \/ Engine

\* The versions of the sources and histories two migrators start from.
MaxBothVersion == 1

BothInit == InitOver(1..MaxBothVersion)

BothSpec == BothInit /\ [][NextBoth]_vars

\* ---------------------------------------------------------------- claims
NoTxPcs == {"no_tx_execute", "no_tx_insert"}
TxPcs == {"tx_begin", "tx_execute", "tx_insert", "tx_commit"}

\* An apply has just returned to its caller.
Returned == pc = "idle" /\ result.op = "apply"

VersionsOf(rows) == {rows[i].version : i \in 1..Len(rows)}

\* The highest of a set of versions, if any.
MaxOpt(S) == IF S = {} THEN None ELSE Some(CHOOSE x \in S : \A y \in S : y <= x)

\* C1: transactional atomicity.  While apply_tx is in flight nothing of the
\* migration is persisted, and when it returns, either it succeeded and the
\* database holds the migration's whole schema effect and exactly one new
\* history row for it, or it failed (at begin, at the execution of the SQL,
\* at the history insert or at commit) and schema and history are what they
\* were when apply was called.
C1_TxAtomicity ==
    /\ pc \in TxPcs => <<history, schema>> = pre
    /\ (Returned /\ result.path = "tx") =>
          IF result.ok
          THEN /\ history = pre[1] \o <<Row(result.applied)>>
               /\ schema = pre[2] \cup Effect(result.arg.sql)
          ELSE <<history, schema>> = pre

\* C1 witness: apply_tx returned a failure of the history insert, after the
\* SQL of a migration not yet in the schema had executed in the transaction.
C1_Witness ==
    /\ Returned /\ result.path = "tx" /\ ~result.ok /\ result.phase = "insert"
    /\ Effect(result.arg.sql) \cap schema = {}
    /\ result.arg.version \notin VersionsOf(history)

\* C2: non-transactional non-atomicity.  apply_no_tx never returns success
\* without having added a history row, and when it returns from a failed
\* history insert (every statement having succeeded), apply returned an
\* error, the schema holds the effect of all statements, the history is what
\* it was at the call, and current_version(), whatever the order of the
\* read, is what it was before the apply.
C2_NoTxInsertFailure ==
    (Returned /\ result.path = "no_tx") =>
        /\ history = pre[1] => ~result.ok
        /\ result.phase = "insert" =>
              /\ ~result.ok
              /\ schema = pre[2] \cup Effect(result.arg.statements)
              /\ history = pre[1]
              /\ \A rows \in Reads(history) : fold(None, rows) = fold(None, pre[1])

\* C2 witness: the insert failed after the statements changed the schema,
\* for a version the history does not hold.
C2_Witness ==
    /\ Returned /\ result.path = "no_tx" /\ result.phase = "insert" /\ ~result.ok
    /\ ~(Effect(result.arg.statements) \subseteq pre[2])
    /\ Effect(result.arg.statements) \subseteq schema
    /\ result.arg.version \notin VersionsOf(history)

\* C6: a successful current_version() returns the highest version among the
\* rows of the history table, and None exactly when the table has no row,
\* whatever the order in which the read returned the rows.
C6_CurrentVersionIsMax ==
    (pc = "idle" /\ result.op = "current_version" /\ result.ok) =>
        /\ result.version = MaxOpt(VersionsOf(history))
        /\ result.version.some <=> history # <<>>

\* C6 witness: current_version() returned the highest version of a history
\* whose rows are not stored in ascending order.
C6_Witness ==
    /\ pc = "idle" /\ result.op = "current_version" /\ result.ok
    /\ Len(history) >= 2
    /\ history[Len(history)].version < history[1].version
    /\ result.version = Some(history[1].version)

\* C7: the default validate_source succeeds for every source set and
\* history, and leaves schema and history as they were.
C7_DefaultValidatorSucceeds ==
    (pc = "idle" /\ result.op = "validate_source") =>
        /\ result.ok
        /\ <<history, schema>> = pre

\* C7 witness: validation succeeded on a history holding a version that no
\* migration of the source declares.
C7_Witness ==
    /\ pc = "idle" /\ result.op = "validate_source" /\ result.ok
    /\ \E v \in VersionsOf(history) : ~Declared(source, v)

\* C8: apply runs a no_tx migration on the non-transactional path and any
\* other on the transactional path, whatever the history, the version and
\* the statements, and what apply returns is what that path returned.
C8_DispatchOnNoTx ==
    /\ pc \in NoTxPcs => migration.no_tx
    /\ pc \in TxPcs => ~migration.no_tx
    /\ Returned => result.path = (IF result.arg.no_tx THEN "no_tx" ELSE "tx")

\* C8 witness: a no_tx migration whose version the history already holds
\* returned from the non-transactional path.
C8_Witness ==
    /\ Returned /\ result.arg.no_tx /\ result.path = "no_tx"
    /\ result.arg.version \in VersionsOf(pre[1])

\* The versions an apply-all sequence has to apply when it starts from the
\* history `start`: those of the source above the highest version of `start`.
Expected(start) ==
    LET cur == MaxOpt(VersionsOf(start))
    IN Ascending({m.version : m \in {d \in source : ~cur.some \/ d.version > cur.value}})

\* The history is `start` followed by one row for each version of `vs`, in
\* order, each recording the migration of the source with that version.
Extends(start, vs) ==
    /\ Len(history) = Len(start) + Len(vs)
    /\ \A i \in 1..Len(start) : history[i] = start[i]
    /\ \A j \in 1..Len(vs) :
          LET row == history[Len(start) + j] IN
          /\ row.version = vs[j]
          /\ row.description = DefOf(source, vs[j]).description
          /\ row.content = DefOf(source, vs[j]).sql

\* C3 as stated: after an apply-all sequence without failure over a source
\* that is not empty, current_version() is the highest version of the source.
C3_Original ==
    (run.pc = "done" /\ source # {}) =>
        \A rows \in Reads(history) :
            fold(None, rows) = MaxOpt({m.version : m \in source})

\* C3 amended: after an apply-all sequence without failure,
\* current_version() is the highest version among the source and the history
\* the sequence started from (None when both are empty).
C3_CurrentVersionAfterApplyAll ==
    run.pc = "done" =>
        \A rows \in Reads(history) :
            fold(None, rows) = MaxOpt({m.version : m \in source} \cup VersionsOf(run.start))

\* C3 witness: a sequence that applied two migrations on top of a non-empty
\* history completed.
C3_Witness ==
    /\ run.pc = "done" /\ Len(run.done) >= 2 /\ run.start # <<>>
    /\ fold(None, history) = Some(run.done[Len(run.done)])

\* C4: an apply-all sequence started right after one that completed without
\* failure calls apply for no migration and leaves history and schema as it
\* found them.
C4_SecondRunAppliesNothing ==
    run.prev = "done" =>
        /\ pc = "idle"
        /\ run.pc # "wait"
        /\ run.pending = <<>>
        /\ run.done = <<>>
        /\ history = run.start
        /\ schema = run.schema0

\* C4 witness: the second sequence completed after a first one that applied
\* migrations.
C4_Witness ==
    /\ run.prev = "done" /\ run.pc = "done" /\ run.prevDone # <<>>

\* C5: an apply-all sequence that completes has applied exactly the
\* migrations whose version exceeds the highest version of the history it
\* started from, in ascending order; the history is the initial one followed
\* by one row for each of them, and current_version() is then the highest
\* of them.
C5_AppliesExactlyUnapplied ==
    run.pc = "done" =>
        /\ run.done = Expected(run.start)
        /\ Extends(run.start, Expected(run.start))
        /\ run.done # <<>> =>
              \A rows \in Reads(history) : fold(None, rows) = Some(run.done[Len(run.done)])

\* C5 witness: the source is [v1, v2, v3], the history was [v1, v2], the
\* sequence applied v3 alone and current_version() is 3.
C5_Witness ==
    /\ run.pc = "done"
    /\ {m.version : m \in source} = {1, 2, 3}
    /\ VersionsOf(run.start) = {1, 2}
    /\ run.done = <<3>>
    /\ VersionsOf(history) = {1, 2, 3}
    /\ fold(None, history) = Some(3)

\* C9: apply returns success only when the schema holds the migration's
\* effect and exactly its row was added, and a failure adds no row; an
\* apply-all sequence stops at the first apply that fails: from then on no
\* operation is in flight, the history is the initial one followed by the
\* rows of the migrations applied before the failure, their schema effects
\* are in place, and nothing of a later migration was executed.
C9_HaltAtFirstFailure ==
    /\ Returned =>
          IF result.ok
          THEN /\ history = pre[1] \o <<Row(result.applied)>>
               /\ result.applied.version = result.arg.version
               /\ Effect(result.arg.sql) \subseteq schema
          ELSE history = pre[1]
    /\ run.pc \in {"apply", "failed", "done"} =>
          /\ Extends(run.start, run.done)
          /\ \A j \in 1..Len(run.done) : Effect(DefOf(source, run.done[j]).sql) \subseteq schema
    /\ run.pc = "failed" =>
          /\ pc = "idle"
          /\ result.op = "apply" =>
                /\ ~result.ok
                /\ run.pending # <<>> /\ result.arg = Head(run.pending)
                /\ schema \subseteq
                      run.schema0 \cup Effect(result.arg.sql)
                        \cup UNION {Effect(DefOf(source, run.done[j]).sql) : j \in 1..Len(run.done)}

\* C9 witness: the second migration of a sequence failed after the first was
\* applied, and a third one was still to apply.
C9_Witness ==
    /\ run.pc = "failed" /\ result.op = "apply" /\ ~result.ok
    /\ Len(run.done) = 1 /\ Len(run.pending) = 2

\* C10 as stated: an apply that failed at the execution of the SQL or at the
\* history insert returns an error that names the version of the migration
\* and tells the one phase from the other.
C10_Original ==
    (Returned /\ ~result.ok /\ result.phase \in {"execute", "insert"}) =>
        /\ result.err.version = result.arg.version
        /\ (result.err.kind = "migration") <=> (result.phase = "execute")

\* An in-flight apply has just been abandoned by its caller.
Abandoned == pc = "idle" /\ result.op = "abandoned"

\* The first n statements of a migration.
Executed(m, n) == {m.statements[i] : i \in 1..n}

\* C11 as stated: after a transactional apply was abandoned at any of its
\* awaits, schema and history are what they were at the call; after a
\* non-transactional apply was abandoned, the statements executed so far are
\* in the schema and the history has no new row.
C11_Original ==
    Abandoned =>
        IF result.path = "tx"
        THEN <<history, schema>> = pre
        ELSE /\ Executed(result.arg, result.at - 1) \subseteq schema
             /\ history = pre[1]

\* C11 amended: a transactional apply abandoned at begin, at the execution
\* of the SQL or at the history insert persists nothing; abandoned at the
\* commit it persists either nothing or the whole migration, schema effect
\* and history row together, according to whether the commit had reached
\* the database.  A non-transactional apply abandoned in the statement loop
\* leaves the statements executed so far applied (and possibly the one in
\* flight) and adds no history row; abandoned at the history insert it
\* leaves all statements applied and adds no row or the migration's row.
C11_Abandon ==
    Abandoned =>
        IF result.path = "tx"
        THEN \/ <<history, schema>> = pre
             \/ /\ result.phase = "tx_commit"
                /\ schema = pre[2] \cup Effect(result.arg.sql)
                /\ \E d \in Durations : history = pre[1] \o <<Row(new_applied(result.arg, d))>>
        ELSE IF result.phase = "no_tx_execute"
        THEN /\ history = pre[1]
             /\ pre[2] \cup Executed(result.arg, result.at - 1) \subseteq schema
             /\ schema \subseteq pre[2] \cup Executed(result.arg, result.at)
        ELSE /\ schema = pre[2] \cup Effect(result.arg.statements)
             /\ \/ history = pre[1]
                \/ \E d \in Durations : history = pre[1] \o <<Row(new_applied(result.arg, d))>>

\* C11 witness: a transactional apply was abandoned at the commit, after
\* its SQL and its history insert had run in the transaction, and nothing
\* of it is in the database.
C11_Witness ==
    /\ Abandoned /\ result.path = "tx" /\ result.phase = "tx_commit"
    /\ <<history, schema>> = pre
    /\ Effect(result.arg.sql) \cap schema = {}

\* C12: a call of check_history_table leaves the rows of the history table
\* and the schema as they were and never removes the table; after a
\* successful call the table exists, and a further call right after a
\* successful one changes nothing in the database.
C12_CheckHistoryTableIdempotent ==
    [][(pc = "idle" /\ pc' = "idle" /\ result'.op = "check_history_table") =>
          /\ history' = history
          /\ schema' = schema
          /\ tableExists => tableExists'
          /\ result'.ok => tableExists'
          /\ (result.op = "check_history_table" /\ result.ok) => tableExists' = tableExists]_vars

\* C12 witness: check_history_table succeeded on a table that holds rows.
C12_Witness ==
    /\ pc = "idle" /\ result.op = "check_history_table" /\ result.ok
    /\ tableExists /\ history # <<>> /\ history = pre[1]

\* A sequence of versions is strictly ascending.
StrictlyAscending(vs) == \A i, j \in 1..Len(vs) : i < j => vs[i] < vs[j]

\* C13: ordering.  In apply_no_tx the statements executed so far are the
\* first ones of the migration, in declaration order, and the history insert
\* comes after all of them.  In apply_tx what ran on the connection of the
\* transaction is, in order, the statements of the migration and then the
\* history insert, and nothing is persisted before commit.  An apply-all
\* sequence applies its migrations in strictly ascending version order.
C13_Ordering ==
    /\ pc = "no_tx_execute" =>
          /\ idx \in 1..Len(migration.statements)
          /\ schema = pre[2] \cup Executed(migration, idx - 1)
          /\ history = pre[1]
    /\ pc = "no_tx_insert" =>
          /\ schema = pre[2] \cup Effect(migration.statements)
          /\ history = pre[1]
    /\ pc \in {"tx_begin", "tx_execute"} => tx.log = <<>>
    /\ pc = "tx_insert" => tx.log = migration.statements
    /\ pc = "tx_commit" =>
          /\ tx.log = Append(migration.statements, InsertEvent(migration.version))
          /\ <<history, schema>> = pre
    /\ StrictlyAscending(run.done \o [i \in 1..Len(run.pending) |-> run.pending[i].version])
    /\ pc \in NoTxPcs \cup TxPcs => migration = Head(run.pending)

\* C13 witness: the second migration of a sequence, a transactional one, has
\* run its statements and its history insert and is about to commit.
C13_Witness ==
    /\ pc = "tx_commit" /\ Len(run.done) = 1
    /\ Len(tx.log) = MaxStmts + 1
    /\ run.done[1] < migration.version

\* C14: when apply_no_tx returns with a statement of the migration missing
\* from the schema, it returned an error and added no history row; when it
\* returns from the failure of the statement at position k, the statements
\* before k are applied and none from k on was executed, the history is what
\* it was at the call (so current_version() is unchanged, None for an empty
\* history), and the error carries the version of the migration.
C14_NoTxStatementFailure ==
    (Returned /\ result.path = "no_tx") =>
        /\ ~(Effect(result.arg.statements) \subseteq schema) =>
              ~result.ok /\ history = pre[1]
        /\ result.phase = "execute" =>
              /\ ~result.ok
              /\ result.at \in 1..Len(result.arg.statements)
              /\ schema = pre[2] \cup Executed(result.arg, result.at - 1)
              /\ history = pre[1]
              /\ \A rows \in Reads(history) : fold(None, rows) = fold(None, pre[1])
              /\ result.err.version = result.arg.version

\* C14 witness: on an empty history, the second statement of a migration
\* failed after the first was applied.
C14_Witness ==
    /\ Returned /\ result.path = "no_tx" /\ result.phase = "execute" /\ ~result.ok
    /\ result.at = 2
    /\ pre[1] = <<>> /\ history = <<>>
    /\ result.arg.statements[1] \in schema /\ result.arg.statements[2] \notin schema
    /\ result.err.version = result.arg.version

\* The history before the first apply-all sequence.
Origin == IF run.no = 0 THEN history ELSE run.origin

\* Every migration of the source below a version of the history `h` has a
\* row in `h`.
GapFree(h) ==
    \A v \in VersionsOf(h) :
        \A m \in source : m.version < v => m.version \in VersionsOf(h)

\* C15: in every state reached by apply-all sequences from a history
\* without gaps, a history row for version V implies a history row for
\* every migration of the source with a version below V.
C15_NoGaps == GapFree(Origin) => GapFree(history)

\* C15 witness: a sequence started from a gap-free history stopped at a
\* failure after applying a migration, with a higher one left unapplied.
C15_Witness ==
    /\ GapFree(Origin) /\ Origin # <<>>
    /\ run.pc = "failed" /\ Len(run.done) >= 1 /\ Len(run.pending) >= 1
    /\ Head(run.pending).version \notin VersionsOf(history)
    /\ GapFree(history)

\* No two rows of `h` have the same version.
UniqueVersions(h) ==
    \A i, j \in 1..Len(h) : h[i].version = h[j].version => i = j

IsPrefix(a, b) == Len(a) <= Len(b) /\ SubSeq(b, 1, Len(a)) = a

\* C17: the history table is append-only.  No step of an engine operation
\* changes or removes a row that exists, and none adds more than one;
\* get_history_table, current_version, check_history_table and
\* validate_source leave the rows as they are; a whole apply, and
\* insert_new_applied, leave them as they are or add one row at the end.
C17_AppendOnly ==
    [][/\ IsPrefix(history, history')
       /\ Len(history') <= Len(history) + 1
       /\ (pc = "idle" /\ pc' = "idle"
             /\ result'.op \in {"get_history_table", "current_version",
                                "check_history_table", "validate_source"})
             => history' = history
       /\ (pc # "idle" /\ pc' = "idle") =>
             /\ IsPrefix(pre[1], history')
             /\ Len(history') <= Len(pre[1]) + 1
       /\ (pc = "idle" /\ pc' = "idle" /\ result'.op = "insert_new_applied") =>
             history' = IF result'.ok THEN Append(history, Row(result'.applied))
                        ELSE history]_vars

\* C17 witness: an apply added its row at the end of a history that had
\* rows, all of which are as they were.
C17_Witness ==
    /\ Returned /\ result.op = "apply" /\ result.ok
    /\ pre[1] # <<>>
    /\ Len(history) = Len(pre[1]) + 1
    /\ IsPrefix(pre[1], history)

\* The statements the apply in flight, or the one that returned last, has
\* executed so far.
ExecutedNow ==
    IF pc = "no_tx_execute" THEN Executed(migration, idx - 1)
    ELSE IF pc = "no_tx_insert" THEN Effect(migration.statements)
    ELSE IF pc \in {"tx_insert", "tx_commit"} THEN Effect(migration.sql)
    ELSE {}

\* A statement was executed although its effect was in the database when
\* the apply started, that is although it had been executed before.
ExecutedTwice == ExecutedNow \cap pre[2] # {}

\* Only one apply-all sequence at a time has run against the database.
OneAtATime == run.other.pc = "ready"

Ended == pc = "idle" /\ result.op \in {"apply", "abandoned"}

\* C19: the history never over-reports.  While an apply is in flight no row
\* of it is in the history.  Once it has ended, by a return or by being
\* abandoned at any await, the rows from before are as they were and at
\* most one row was added; a row was added only for the migration applied,
\* with all of its statements in effect in the database.  When apply
\* returns success exactly one row was added, and its version, description,
\* content and duration are those of the AppliedMigration returned, which
\* are those of the migration applied.
C19_NeverOverReports ==
    /\ pc # "idle" => history = pre[1]
    /\ Ended =>
          /\ IsPrefix(pre[1], history)
          /\ Len(history) <= Len(pre[1]) + 1
          /\ Len(history) = Len(pre[1]) + 1 =>
                LET row == history[Len(history)] IN
                /\ row.version = result.arg.version
                /\ row.description = result.arg.description
                /\ row.content = result.arg.sql
                /\ Effect(result.arg.statements) \subseteq schema
                /\ Effect(row.content) \subseteq schema
          /\ (result.op = "apply" /\ result.ok) =>
                /\ Len(history) = Len(pre[1]) + 1
                /\ LET row == history[Len(history)] IN
                      /\ row.version = result.applied.version
                      /\ row.description = result.applied.description
                      /\ row.content = result.applied.content
                      /\ row.duration_ms = result.applied.duration_ms
                /\ result.applied.version = result.arg.version

\* C19 witness: a transactional apply returned success with a duration
\* that is not zero, and the row added after the rows from before is the
\* AppliedMigration it returned.
C19_Witness ==
    /\ Ended /\ result.op = "apply" /\ result.ok /\ result.path = "tx"
    /\ result.applied.duration_ms = MaxDuration
    /\ pre[1] # <<>>
    /\ history = Append(pre[1], Row(result.applied))
    /\ Effect(result.arg.sql) \subseteq schema

\* C19 witness, cancellation: an apply without transaction was abandoned
\* while its history insert was pending, and the row is recorded.
C19_WitnessAbandoned ==
    /\ Ended /\ result.op = "abandoned" /\ result.phase = "no_tx_insert"
    /\ Len(history) = Len(pre[1]) + 1
    /\ Effect(result.arg.statements) \subseteq schema

\* The read of the history failed.
ReadFailed == Err("get_history_table", into_error, "select")

\* C20: the read of the history may fail in any state, and current_version
\* then fails with the error of the read and reports no version.  After a
\* current_version: it failed if the table does not exist; if it failed,
\* the error is that of the read; if it succeeded, the table was read and
\* the version is the highest of its rows, None only when it has no row.
C20_CurrentVersionReadFailure ==
    /\ ReadFailed \in get_history_table
    /\ ~current_version_of(ReadFailed).ok
    /\ current_version_of(ReadFailed).err = ReadFailed.err
    /\ current_version_of(ReadFailed).phase = ReadFailed.phase
    /\ ~current_version_of(ReadFailed).version.some
    /\ (pc = "idle" /\ result.op = "current_version") =>
          /\ ~tableExists => ~result.ok
          /\ ~result.ok => result = current_version_of(ReadFailed)
          /\ result.ok => tableExists /\ result.version = MaxOpt(VersionsOf(history))
          /\ (result.ok /\ ~result.version.some) => history = <<>>

\* C20 witness: current_version failed, with the error of the read, on a
\* table that exists and has rows.
C20_Witness ==
    /\ pc = "idle" /\ result.op = "current_version" /\ ~result.ok
    /\ result.err = ReadFailed.err
    /\ tableExists /\ history # <<>>

====
